---- MODULE Spec2Model ----
(***************************************************************************)
(* Model of the vending machine controller of src/src/vendingMachine.ts.   *)
(* The machine's fields are the state; every public method is one action.  *)
(* The methods themselves are operators over a record of the fields, so    *)
(* that the order of the assignments inside a method is kept.              *)
(***************************************************************************)
EXTENDS Integers, Sequences, FiniteSets, TLC

\* ------------------------------------------------------------- bounds
\* Total value of the coins insertCoin may accept in one run.
MaxInserted == 12
\* Largest initial quantity of an inventory item.
MaxQty == 1
\* Total value of the coins accepted in one run of the two revisions side by side.
MaxInsertedBoth == 9

\* ------------------------------------------------------------- inputs
\* interface Coin { weight; value } (weights in whole units)
Coin(w, v) == [weight |-> w, value |-> v]

\* Accepted-coin catalogs handed to the constructor.
Catalogs ==
    { <<Coin(1, 2), Coin(2, 3)>>,      \* two denominations, neither divides the other
      <<Coin(1, 1), Coin(1, 2)>>,      \* two coins of the same weight
      <<Coin(1, 2), Coin(2, 2)>> }     \* two coins of the same value

\* interface InventoryItem { name; price; quantity }
Item(n, p, q) == [name |-> n, price |-> p, quantity |-> q]

\* Inventories handed to the constructor: two occupied slots.
Inventories ==
    { [k \in {"A1", "A2"} |-> IF k = "A1" THEN Item("chips", 1, q1) ELSE Item("cola", 4, q2)] :
        q1 \in 0..MaxQty, q2 \in 0..MaxQty }

\* Slot keys a customer may select; "B2" is never occupied.
Keys == {"A1", "A2", "B2"}

\* A weight no catalog coin has.
UnknownWeight == 42

VARIABLES
    validCoins,         \* private validCoins: Coin[]
    insertedCoins,      \* public insertedCoins: Coin[]
    coinInv,            \* public coinInv: CoinInventory (value -> count)
    inventory,          \* public inventory: Inventory (key -> item)
    display,            \* public display: string, as a sequence of text pieces
    lastDispensedItem,  \* public lastDispensedItem: the slot of the item object, or Null
    op,                 \* the last call: [name, weight, key, held, stock]
    coinAccepted,       \* what the last insertCoin returned
    change,             \* what the last selectItem returned
    amounts,            \* changeAmount at entry of calcChange and after each pass of its while loop
    totalInserted,      \* value of all coins insertCoin has accepted
    totalChange,        \* value of all coins returned as change
    totalEjected,       \* value of all held coins dropped by resetMachine
    initialQuantity,    \* slot -> quantity of the inventory the constructor was given
    purchases,          \* slot -> selectItem calls made for it that paid for an item in stock
    earlier,            \* the fields of a machine of the earlier revision (src/unnamed/part_000),
                        \* built from equal arguments (an inventory object of its own) and
                        \* given the same calls
    earlierCoinAccepted,\* what its last insertCoin returned
    earlierChange,      \* what its last selectItem returned
    rejectedHolding     \* some selectItem so far was rejected while coins were held

vars == <<validCoins, insertedCoins, coinInv, inventory, display, lastDispensedItem,
          op, coinAccepted, change, amounts, totalInserted, totalChange, totalEjected,
          initialQuantity, purchases,
          earlier, earlierCoinAccepted, earlierChange, rejectedHolding>>

earlierVars == <<earlier, earlierCoinAccepted, earlierChange, rejectedHolding>>

Null == "null"

\* ------------------------------------------------------------- helpers
RECURSIVE SumValues(_)
SumValues(coins) ==
    IF coins = <<>> THEN 0 ELSE Head(coins).value + SumValues(Tail(coins))

\* A sort with the comparison turned round: (a, b) => a - b
RECURSIVE SortAsc(_)
SortAsc(S) ==
    IF S = {} THEN <<>>
    ELSE LET mn == CHOOSE x \in S : \A y \in S : x <= y
         IN  <<mn>> \o SortAsc(S \ {mn})

\* coins.sort((a, b) => b - a) on a set of distinct numbers
RECURSIVE SortDesc(_)
SortDesc(S) ==
    IF S = {} THEN <<>>
    ELSE LET mx == CHOOSE x \in S : \A y \in S : y <= x
         IN  <<mx>> \o SortDesc(S \ {mx})

\* validCoins.find(c => c.value === coin): index of the first match, 0 for undefined
FindIndex(catalog, coin) ==
    IF \E i \in 1..Len(catalog) : catalog[i].value = coin
    THEN CHOOSE i \in 1..Len(catalog) :
            /\ catalog[i].value = coin
            /\ \A j \in 1..(i - 1) : catalog[j].value # coin
    ELSE 0

\* ------------------------------------------------------------- display
DisplayInsert == <<"INSERT COINS">>
DisplayExact == <<"EXACT CHANGE ONLY">>
DisplaySoldOut == <<"SOLD OUT">>
DisplayThank == <<"THANKS">>

Digit(n) == <<"0", "1", "2", "3", "4", "5", "6", "7", "8", "9">>[n + 1]

RECURSIVE Digits(_)
Digits(n) == IF n < 10 THEN <<Digit(n)>> ELSE Digits(n \div 10) \o <<Digit(n % 10)>>

\* vsprintf("PRICE: $%.2f", [itemPrice / 100]) for a price in whole minor units
formatPriceText(itemPrice) ==
    <<"PRICE: $">> \o Digits(itemPrice \div 100) \o <<".">>
        \o <<Digit((itemPrice % 100) \div 10), Digit(itemPrice % 10)>>

\* ------------------------------------------------------------- methods
\* The coin inventory while the constructor has not assigned it yet: for..in over
\* undefined visits nothing.
Undefined == <<>>

insertedCoinsValue(m) == SumValues(m.insertedCoins)

coinInvIndexes(m) == DOMAIN m.coinInv

\* ableToMakeChange that is satisfied by the first denomination with 5 coins or more.
ableToMakeChangeAny(inv) == \E coin \in DOMAIN inv : ~(inv[coin] < 5)

ableToMakeChange(inv) == \A coin \in DOMAIN inv : ~(inv[coin] < 5)

createCoinInventoryRecord(catalog) ==
    [v \in {catalog[i].value : i \in 1..Len(catalog)} |-> 0]

checkForExactChangeMode(inv) ==
    IF ableToMakeChange(inv) THEN DisplayInsert ELSE DisplayExact

\* A constructor that works out the display after it has made the coin inventory.
constructorDisplayAfterStock(catalog) ==
    checkForExactChangeMode(createCoinInventoryRecord(catalog))

\* The display the constructor sets in its first statement, when this.coinInv is
\* not assigned yet.
constructorDisplay(catalog) == checkForExactChangeMode(Undefined)

\* calcChangeWhile with a strict comparison: a coin worth exactly the amount owed is
\* not given.
RECURSIVE calcChangeWhileStrict(_, _, _)
calcChangeWhileStrict(coin, coinObj, st) ==
    IF st.changeAmount > coin /\ st.m.coinInv[coin] > 0
    THEN calcChangeWhileStrict(coin, coinObj,
            [m            |-> [st.m EXCEPT !.coinInv[coin] = @ - 1],
             changeAmount |-> st.changeAmount - coin,
             change       |-> Append(st.change, coinObj),
             amounts      |-> Append(st.amounts, st.changeAmount - coin)])
    ELSE st

\* calcChangeWhile that gives coins while anything is owed, whatever the coin is worth.
RECURSIVE calcChangeWhileOverpay(_, _, _)
calcChangeWhileOverpay(coin, coinObj, st) ==
    IF st.changeAmount > 0 /\ st.m.coinInv[coin] > 0
    THEN calcChangeWhileOverpay(coin, coinObj,
            [m            |-> [st.m EXCEPT !.coinInv[coin] = @ - 1],
             changeAmount |-> st.changeAmount - coin,
             change       |-> Append(st.change, coinObj),
             amounts      |-> Append(st.amounts, st.changeAmount - coin)])
    ELSE st

\* calcChangeWhile that gives the coins without taking them off the stock.
RECURSIVE calcChangeWhileKeepsStock(_, _, _)
calcChangeWhileKeepsStock(coin, coinObj, st) ==
    IF st.changeAmount >= coin /\ st.m.coinInv[coin] > 0
    THEN calcChangeWhileKeepsStock(coin, coinObj,
            [m            |-> st.m,
             changeAmount |-> st.changeAmount - coin,
             change       |-> Append(st.change, coinObj),
             amounts      |-> Append(st.amounts, st.changeAmount - coin)])
    ELSE st

\* calcChangeWhile that does not look at the stock of the coin it gives.
RECURSIVE calcChangeWhileNoStockCheck(_, _, _)
calcChangeWhileNoStockCheck(coin, coinObj, st) ==
    IF st.changeAmount >= coin
    THEN calcChangeWhileNoStockCheck(coin, coinObj,
            [m            |-> [st.m EXCEPT !.coinInv[coin] = @ - 1],
             changeAmount |-> st.changeAmount - coin,
             change       |-> Append(st.change, coinObj),
             amounts      |-> Append(st.amounts, st.changeAmount - coin)])
    ELSE st

\* One run of the while loop of calcChange for one denomination.
\* st = [m, changeAmount, change, amounts]
RECURSIVE calcChangeWhile(_, _, _)
calcChangeWhile(coin, coinObj, st) ==
    IF st.changeAmount >= coin /\ st.m.coinInv[coin] > 0
    THEN calcChangeWhile(coin, coinObj,
            [m            |-> [st.m EXCEPT !.coinInv[coin] = @ - 1],
             changeAmount |-> st.changeAmount - coin,
             change       |-> Append(st.change, coinObj),
             amounts      |-> Append(st.amounts, st.changeAmount - coin)])
    ELSE st

\* The for loop of calcChange over the sorted denominations.
RECURSIVE calcChangeFor(_, _, _)
calcChangeFor(catalog, coins, st) ==
    IF coins = <<>> THEN st
    ELSE LET coin == Head(coins)
             i    == FindIndex(catalog, coin)
         IN  IF i = 0
             THEN calcChangeFor(catalog, Tail(coins), st)
             ELSE calcChangeFor(catalog, Tail(coins), calcChangeWhile(coin, catalog[i], st))

calcChange(catalog, m, changeAmount) ==
    calcChangeFor(catalog, SortDesc(coinInvIndexes(m)),
        [m |-> m, changeAmount |-> changeAmount, change |-> <<>>, amounts |-> <<changeAmount>>])

addCoinsToInv(m) ==
    [m EXCEPT
        !.coinInv = [v \in DOMAIN m.coinInv |->
            m.coinInv[v] + Cardinality({i \in 1..Len(m.insertedCoins) : m.insertedCoins[i].value = v})],
        !.insertedCoins = <<>>]

\* dispenseItem that takes the item off the shelf but does not record it.
dispenseItemForgetsItem(m, key) ==
    [m EXCEPT !.inventory[key].quantity = @ - 1]

\* dispenseItem that records the item but leaves its quantity.
dispenseItemKeepsQuantity(m, key) ==
    [m EXCEPT !.lastDispensedItem = key]

dispenseItem(m, key) ==
    [m EXCEPT !.lastDispensedItem = key,
              !.inventory[key].quantity = @ - 1]

\* buyItem that takes the held coins into the stock before it works out the change.
buyItemFoldsFirst(catalog, m, key) ==
    LET m1     == dispenseItem(m, key)
        m2     == [m1 EXCEPT !.display = DisplayThank]
        amount == insertedCoinsValue(m2)
    IN  calcChange(catalog, addCoinsToInv(m2), amount - m2.inventory[key].price)

buyItem(catalog, m, key) ==
    LET m1     == dispenseItem(m, key)
        m2     == [m1 EXCEPT !.display = DisplayThank]
        amount == insertedCoinsValue(m2)
    IN  calcChange(catalog, m2, amount - m2.inventory[key].price)

\* selectItemBranch with the funds comparison turned round.
selectItemBranchFundsFlipped(m, key) ==
    IF key \notin DOMAIN m.inventory THEN 1
    ELSE IF m.inventory[key].quantity <= 0 THEN 2
    ELSE IF m.inventory[key].price < insertedCoinsValue(m) THEN 3
    ELSE 4

\* selectItemBranch that takes only a negative quantity for out of stock.
selectItemBranchZeroInStock(m, key) ==
    IF key \notin DOMAIN m.inventory THEN 1
    ELSE IF m.inventory[key].quantity < 0 THEN 2
    ELSE IF m.inventory[key].price > insertedCoinsValue(m) THEN 3
    ELSE 4

\* selectItemBranch without the test on the quantity in stock.
selectItemBranchSkipsStockTest(m, key) ==
    IF key \notin DOMAIN m.inventory THEN 1
    ELSE IF m.inventory[key].price > insertedCoinsValue(m) THEN 3
    ELSE 4

\* Which branch of selectItem's if / else-if chain is taken:
\* 1 no such item, 2 out of stock, 3 price above the held value, 4 buy.
selectItemBranch(m, key) ==
    IF key \notin DOMAIN m.inventory THEN 1
    ELSE IF m.inventory[key].quantity <= 0 THEN 2
    ELSE IF m.inventory[key].price > insertedCoinsValue(m) THEN 3
    ELSE 4

\* selectItem that shows the value held, not the price, when the coins do not pay.
selectItemShowsHeld(catalog, m, key) ==
    LET noChange(mm) == [m |-> mm, changeAmount |-> 0, change |-> <<>>, amounts |-> <<>>]
        branch == selectItemBranch(m, key)
        r == CASE branch = 1 -> noChange([m EXCEPT !.display = DisplaySoldOut])
               [] branch = 2 -> noChange([m EXCEPT !.display = DisplaySoldOut])
               [] branch = 3 -> noChange([m EXCEPT !.display = formatPriceText(insertedCoinsValue(m))])
               [] OTHER      -> buyItem(catalog, m, key)
    IN  [r EXCEPT !.m = addCoinsToInv(r.m)]

\* selectItem that takes the held coins into the stock only after a purchase.
selectItemFoldsOnPurchase(catalog, m, key) ==
    LET noChange(mm) == [m |-> mm, changeAmount |-> 0, change |-> <<>>, amounts |-> <<>>]
        branch == selectItemBranch(m, key)
        bought == buyItem(catalog, m, key)
    IN  CASE branch = 1 -> noChange([m EXCEPT !.display = DisplaySoldOut])
          [] branch = 2 -> noChange([m EXCEPT !.display = DisplaySoldOut])
          [] branch = 3 -> noChange([m EXCEPT !.display = formatPriceText(m.inventory[key].price)])
          [] OTHER      -> [bought EXCEPT !.m = addCoinsToInv(bought.m)]

\* The outcome of selectItem: [m, changeAmount, change, amounts]
selectItem(catalog, m, key) ==
    LET noChange(mm) == [m |-> mm, changeAmount |-> 0, change |-> <<>>, amounts |-> <<>>]
        branch == selectItemBranch(m, key)
        r == CASE branch = 1 -> noChange([m EXCEPT !.display = DisplaySoldOut])
               [] branch = 2 -> noChange([m EXCEPT !.display = DisplaySoldOut])
               [] branch = 3 -> noChange([m EXCEPT !.display = formatPriceText(m.inventory[key].price)])
               [] OTHER      -> buyItem(catalog, m, key)
    IN  [r EXCEPT !.m = addCoinsToInv(r.m)]

\* selectItem of the earlier revision with no addCoinsToInv at all.
selectItemEarlierNeverFolds(catalog, m, key) ==
    LET noChange(mm) == [m |-> mm, changeAmount |-> 0, change |-> <<>>, amounts |-> <<>>]
        branch == selectItemBranch(m, key)
    IN  CASE branch = 1 -> noChange([m EXCEPT !.display = DisplaySoldOut])
          [] branch = 2 -> noChange([m EXCEPT !.display = DisplaySoldOut])
          [] branch = 3 -> noChange([m EXCEPT !.display = formatPriceText(m.inventory[key].price)])
          [] OTHER      -> buyItem(catalog, m, key)

\* selectItem as src/unnamed/part_000 has it: the same if / else-if chain, with
\* this.addCoinsToInv() inside the final else, after buyItem. The methods it calls
\* (insertedCoinsValue, formatPriceText, buyItem, addCoinsToInv) have the same
\* statements in both revisions.
selectItemEarlier(catalog, m, key) ==
    LET noChange(mm) == [m |-> mm, changeAmount |-> 0, change |-> <<>>, amounts |-> <<>>]
        branch == selectItemBranch(m, key)
        bought == buyItem(catalog, m, key)
    IN  CASE branch = 1 -> noChange([m EXCEPT !.display = DisplaySoldOut])
          [] branch = 2 -> noChange([m EXCEPT !.display = DisplaySoldOut])
          [] branch = 3 -> noChange([m EXCEPT !.display = formatPriceText(m.inventory[key].price)])
          [] OTHER      -> [bought EXCEPT !.m = addCoinsToInv(bought.m)]

\* weightMatches that takes any coin no heavier than the weight measured.
weightMatchesAtMost(coin, weight) == coin.weight <= weight

\* The test of insertCoin's forEach callback.
weightMatches(coin, weight) == coin.weight = weight

\* insertCoin's forEach over validCoins. st = [insertedCoins, coinAccepted]
RECURSIVE insertCoinForEach(_, _, _)
insertCoinForEach(coins, weight, st) ==
    IF coins = <<>> THEN st
    ELSE LET coin == Head(coins)
         IN  insertCoinForEach(Tail(coins), weight,
                IF weightMatches(coin, weight)
                THEN [insertedCoins |-> Append(st.insertedCoins, coin), coinAccepted |-> TRUE]
                ELSE st)

\* insertCoin that works out the display again after taking the coin.
insertCoinUpdatesDisplay(catalog, m, weight) ==
    LET st == insertCoinForEach(catalog, weight,
                [insertedCoins |-> m.insertedCoins, coinAccepted |-> FALSE])
    IN  [m |-> [m EXCEPT !.insertedCoins = st.insertedCoins,
                         !.display = checkForExactChangeMode(m.coinInv)],
         coinAccepted |-> st.coinAccepted]

\* The outcome of insertCoin: [m, coinAccepted]
insertCoin(catalog, m, weight) ==
    LET st == insertCoinForEach(catalog, weight,
                [insertedCoins |-> m.insertedCoins, coinAccepted |-> FALSE])
    IN  [m |-> [m EXCEPT !.insertedCoins = st.insertedCoins], coinAccepted |-> st.coinAccepted]

\* resetMachine that takes the held coins into the stock.
resetMachineFolds(m) ==
    [addCoinsToInv(m) EXCEPT !.display = checkForExactChangeMode(addCoinsToInv(m).coinInv)]

resetMachine(m) ==
    [m EXCEPT !.insertedCoins = <<>>,
              !.display = checkForExactChangeMode(m.coinInv)]

ejectCoins(m) == resetMachine(m)

\* insertCoin, resetMachine and ejectCoins of src/unnamed/part_000: statement for
\* statement those of the later revision.
insertCoinEarlier(catalog, m, weight) == insertCoin(catalog, m, weight)

resetMachineEarlier(m) == resetMachine(m)

ejectCoinsEarlier(m) == resetMachineEarlier(m)

\* ------------------------------------------------------------- the change test
\* The catalog of the tests: nickel, dime and quarter, weights in milligrams.
TestCoins == <<Coin(5000, 5), Coin(2268, 10), Coin(5670, 25)>>

\* The machine of the test "As much change as possible is given without giving too
\* much": chips at 65, a stock of one nickel and two dimes, and 95 held as three
\* quarters and two dimes.
TestMachine ==
    [insertedCoins     |-> <<Coin(5670, 25), Coin(5670, 25), Coin(5670, 25),
                             Coin(2268, 10), Coin(2268, 10)>>,
     coinInv           |-> [v \in {5, 10, 25} |-> IF v = 5 THEN 1 ELSE IF v = 10 THEN 2 ELSE 0],
     inventory         |-> [k \in {"A1"} |-> Item("chips", 65, 3)],
     display           |-> DisplayInsert,
     lastDispensedItem |-> Null]

\* helper.buyTestItem() on that machine
TestPurchase == selectItem(TestCoins, TestMachine, "A1")

\* ------------------------------------------------------------- state machine
Machine ==
    [insertedCoins     |-> insertedCoins,
     coinInv           |-> coinInv,
     inventory         |-> inventory,
     display           |-> display,
     lastDispensedItem |-> lastDispensedItem]

Becomes(m) ==
    /\ insertedCoins' = m.insertedCoins
    /\ coinInv' = m.coinInv
    /\ inventory' = m.inventory
    /\ display' = m.display
    /\ lastDispensedItem' = m.lastDispensedItem

\* A call as the caller made it: the method, its argument, and the value held and
\* the coin stock at that moment.
Call(name, weight, key) ==
    [name |-> name, weight |-> weight, key |-> key,
     held |-> SumValues(insertedCoins), stock |-> coinInv]

\* constructor(acceptedCoins, inventory)
Init ==
    /\ validCoins \in Catalogs
    /\ inventory \in Inventories
    /\ display = constructorDisplay(validCoins)
    /\ insertedCoins = <<>>
    /\ coinInv = createCoinInventoryRecord(validCoins)
    /\ lastDispensedItem = Null
    /\ op = [name |-> "constructor", weight |-> 0, key |-> "-", held |-> 0, stock |-> coinInv]
    /\ coinAccepted = FALSE
    /\ change = <<>>
    /\ amounts = <<>>
    /\ totalInserted = 0
    /\ totalChange = 0
    /\ totalEjected = 0
    /\ initialQuantity = [k \in DOMAIN inventory |-> inventory[k].quantity]
    /\ purchases = [k \in DOMAIN inventory |-> 0]
    /\ earlier = [insertedCoins     |-> <<>>,
                  coinInv           |-> createCoinInventoryRecord(validCoins),
                  inventory         |-> inventory,
                  display           |-> constructorDisplay(validCoins),
                  lastDispensedItem |-> Null]
    /\ earlierCoinAccepted = FALSE
    /\ earlierChange = <<>>
    /\ rejectedHolding = FALSE

\* The caller's view of a selectItem(key) that will succeed: the slot holds an item
\* in stock and the coins held pay its price.
Pays(key) ==
    /\ key \in DOMAIN inventory
    /\ inventory[key].quantity > 0
    /\ SumValues(insertedCoins) >= inventory[key].price

InsertCoin(weight) ==
    LET r      == insertCoin(validCoins, Machine, weight)
        pushed == SumValues(r.m.insertedCoins) - SumValues(insertedCoins)
    IN  /\ totalInserted + pushed <= MaxInserted
        /\ Becomes(r.m)
        /\ coinAccepted' = r.coinAccepted
        /\ op' = Call("insertCoin", weight, "-")
        /\ change' = <<>>
        /\ amounts' = <<>>
        /\ totalInserted' = totalInserted + pushed
        /\ UNCHANGED <<validCoins, totalChange, totalEjected, initialQuantity, purchases>>

SelectItem(key) ==
    LET r == selectItem(validCoins, Machine, key)
    IN  /\ Becomes(r.m)
        /\ change' = r.change
        /\ amounts' = r.amounts
        /\ op' = Call("selectItem", 0, key)
        /\ coinAccepted' = FALSE
        /\ totalChange' = totalChange + SumValues(r.change)
        /\ purchases' = IF Pays(key) THEN [purchases EXCEPT ![key] = @ + 1] ELSE purchases
        /\ UNCHANGED <<validCoins, totalInserted, totalEjected, initialQuantity>>

ResetMachine ==
    /\ Becomes(resetMachine(Machine))
    /\ op' = Call("resetMachine", 0, "-")
    /\ coinAccepted' = FALSE
    /\ change' = <<>>
    /\ amounts' = <<>>
    /\ totalEjected' = totalEjected + SumValues(insertedCoins)
    /\ UNCHANGED <<validCoins, totalInserted, totalChange, initialQuantity, purchases>>

EjectCoins ==
    /\ Becomes(ejectCoins(Machine))
    /\ op' = Call("ejectCoins", 0, "-")
    /\ coinAccepted' = FALSE
    /\ change' = <<>>
    /\ amounts' = <<>>
    /\ totalEjected' = totalEjected + SumValues(insertedCoins)
    /\ UNCHANGED <<validCoins, totalInserted, totalChange, initialQuantity, purchases>>

Weights == {validCoins[i].weight : i \in 1..Len(validCoins)} \cup {UnknownWeight}

\* One machine, of the later revision, and its caller.
Next ==
    \/ \E weight \in Weights : InsertCoin(weight) /\ UNCHANGED earlierVars
    \/ \E key \in Keys : SelectItem(key) /\ UNCHANGED earlierVars
    \/ ResetMachine /\ UNCHANGED earlierVars
    \/ EjectCoins /\ UNCHANGED earlierVars

Spec == Init /\ [][Next]_vars

\* ------------------------------------------------------------- two revisions
\* The same calls made on a machine of the earlier revision.
EarlierInsertCoin(weight) ==
    LET r == insertCoinEarlier(validCoins, earlier, weight)
    IN  /\ earlier' = r.m
        /\ earlierCoinAccepted' = r.coinAccepted
        /\ earlierChange' = <<>>
        /\ UNCHANGED rejectedHolding

EarlierSelectItem(key) ==
    LET r == selectItemEarlier(validCoins, earlier, key)
    IN  /\ earlier' = r.m
        /\ earlierChange' = r.change
        /\ earlierCoinAccepted' = FALSE
        /\ rejectedHolding' =
              ( \/ rejectedHolding
                \/ /\ ~Pays(key)
                   /\ (insertedCoins # <<>> \/ earlier.insertedCoins # <<>>) )

EarlierResetMachine ==
    /\ earlier' = resetMachineEarlier(earlier)
    /\ earlierCoinAccepted' = FALSE
    /\ earlierChange' = <<>>
    /\ UNCHANGED rejectedHolding

EarlierEjectCoins ==
    /\ earlier' = ejectCoinsEarlier(earlier)
    /\ earlierCoinAccepted' = FALSE
    /\ earlierChange' = <<>>
    /\ UNCHANGED rejectedHolding

\* Both machines, side by side, under one sequence of calls, of coins worth at
\* most MaxInsertedBoth in all.
NextBoth ==
    \/ \E weight \in Weights :
          /\ InsertCoin(weight)
          /\ EarlierInsertCoin(weight)
          /\ totalInserted' <= MaxInsertedBoth
    \/ \E key \in Keys : SelectItem(key) /\ EarlierSelectItem(key)
    \/ ResetMachine /\ EarlierResetMachine
    \/ EjectCoins /\ EarlierEjectCoins

SpecBoth == Init /\ [][NextBoth]_vars

\* ------------------------------------------------------------- properties
\* What a claim says of a call is stated over the step the call makes: the
\* unprimed variables are the machine before the call, op' names the call.

IsSelect == op'.name = "selectItem"

\* The item under `key` exists, is in stock and the held value pays for it.
CanBuy(key) ==
    /\ key \in DOMAIN inventory
    /\ inventory[key].quantity > 0
    /\ inventory[key].price <= SumValues(insertedCoins)

\* heldValue - price of the item under `key`, before the call
Owed(key) == SumValues(insertedCoins) - inventory[key].price

\* How many coins of the sequence have value d.
CountValue(coins, d) == Cardinality({i \in 1..Len(coins) : coins[i].value = d})

\* The value of the coins of a stock, over the denominations S.
RECURSIVE StockValue(_, _)
StockValue(inv, S) ==
    IF S = {} THEN 0
    ELSE LET d == CHOOSE x \in S : TRUE
         IN  d * inv[d] + StockValue(inv, S \ {d})

CoinInvValue == StockValue(coinInv, DOMAIN coinInv)

\* C1: a selectItem(key) for an item that exists, is in stock and is paid for
\* takes exactly one off that item's quantity and off no other item's, shows
\* THANKS, makes that item the last dispensed one and leaves no held coins.
C1_SuccessfulPurchase ==
    [][ (IsSelect /\ CanBuy(op'.key)) =>
            /\ DOMAIN inventory' = DOMAIN inventory
            /\ inventory'[op'.key] =
                  [inventory[op'.key] EXCEPT !.quantity = inventory[op'.key].quantity - 1]
            /\ \A k \in DOMAIN inventory \ {op'.key} : inventory'[k] = inventory[k]
            /\ display' = DisplayThank
            /\ lastDispensedItem' = op'.key
            /\ insertedCoins' = <<>> ]_vars

\* A purchase has happened: coins were held, the item left the slot.
C1_Witness ==
    /\ op.name = "selectItem"
    /\ op.held > 0
    /\ display = DisplayThank
    /\ lastDispensedItem = op.key
    /\ insertedCoins = <<>>

\* Some coins of the stock `inv`, at most inv[d] of each value d, sum to `amount`.
RECURSIVE HasCombination(_, _, _)
HasCombination(denoms, inv, amount) ==
    IF amount = 0 THEN TRUE
    ELSE IF denoms = <<>> THEN FALSE
    ELSE \E n \in 0..inv[Head(denoms)] :
            /\ n * Head(denoms) <= amount
            /\ HasCombination(Tail(denoms), inv, amount - n * Head(denoms))

\* C2 as claimed: on a successful selectItem, whenever the stock at the call
\* holds some combination of coins worth exactly heldValue - price, the change
\* returned is worth exactly heldValue - price.
C2_ExactWhenSomeCombination ==
    [][ (IsSelect /\ CanBuy(op'.key)
            /\ HasCombination(SortDesc(DOMAIN coinInv), coinInv, Owed(op'.key))) =>
            SumValues(change') = Owed(op'.key) ]_vars

\* The stock of the smallest denomination alone pays `amount`: that denomination
\* divides the amount and every denomination, and enough coins of it are in stock.
SmallestPays(inv, amount) ==
    LET least == CHOOSE d \in DOMAIN inv : \A e \in DOMAIN inv : d <= e
    IN  /\ \A d \in DOMAIN inv : d % least = 0
        /\ amount % least = 0
        /\ inv[least] * least >= amount

\* C2 as amended: on a successful selectItem, whenever the stock of the smallest
\* denomination alone can pay heldValue - price, the change returned is worth
\* exactly heldValue - price.
C2_ExactWhenSmallestPays ==
    [][ (IsSelect /\ CanBuy(op'.key) /\ SmallestPays(coinInv, Owed(op'.key))) =>
            SumValues(change') = Owed(op'.key) ]_vars

\* A purchase that owed change the smallest denomination could pay, and
\* returned all of it.
C2_Witness ==
    /\ op.name = "selectItem"
    /\ lastDispensedItem = op.key
    /\ display = DisplayThank
    /\ amounts # <<>>
    /\ amounts[1] > 0
    /\ SmallestPays(op.stock, amounts[1])
    /\ SumValues(change) = amounts[1]

\* C3: the change of a purchase is never worth more than heldValue - price, a
\* rejected selectItem returns none, and no pass of calcChange's loop raises the
\* amount still owed.
C3_NeverTooMuchChange ==
    [][ IsSelect =>
            /\ CanBuy(op'.key) =>
                  /\ SumValues(change') <= Owed(op'.key)
                  /\ amounts' # <<>>
                  /\ amounts'[1] = Owed(op'.key)
                  /\ amounts'[Len(amounts')] = Owed(op'.key) - SumValues(change')
            /\ ~CanBuy(op'.key) => change' = <<>>
            /\ \A i \in 1..(Len(amounts') - 1) : amounts'[i + 1] <= amounts'[i] ]_vars

\* A purchase that owed more than the stock could pay: some change, a shortfall left.
C3_Witness ==
    /\ op.name = "selectItem"
    /\ display = DisplayThank
    /\ change # <<>>
    /\ Len(amounts) > 1
    /\ amounts[Len(amounts)] > 0

\* C4: a selectItem(key) for an item in stock whose price is above the held
\* value returns no change, shows the formatted price of that item and leaves
\* the inventory and the last dispensed item as they were.
C4_InsufficientFunds ==
    [][ (IsSelect /\ op'.key \in DOMAIN inventory
            /\ inventory[op'.key].quantity > 0
            /\ inventory[op'.key].price > SumValues(insertedCoins)) =>
            /\ change' = <<>>
            /\ display' = formatPriceText(inventory[op'.key].price)
            /\ inventory' = inventory
            /\ lastDispensedItem' = lastDispensedItem ]_vars

\* The cola at 4 was asked for with some coins held, but fewer than 4.
C4_Witness ==
    /\ op.name = "selectItem"
    /\ op.key = "A2"
    /\ op.held > 0
    /\ op.held < 4
    /\ inventory["A2"].quantity > 0
    /\ display = <<"PRICE: $", "0", ".", "0", "4">>

\* C5: a selectItem(key) for a key the inventory does not have, or for an item
\* with quantity <= 0, returns no change, shows SOLD OUT and leaves the inventory
\* and the last dispensed item as they were, whatever value is held.
C5_SoldOut ==
    [][ (IsSelect /\ (op'.key \notin DOMAIN inventory \/ inventory[op'.key].quantity <= 0)) =>
            /\ change' = <<>>
            /\ display' = DisplaySoldOut
            /\ inventory' = inventory
            /\ lastDispensedItem' = lastDispensedItem ]_vars

\* An empty slot was asked for while the held value would have paid for it.
C5_Witness ==
    /\ op.name = "selectItem"
    /\ op.key \in DOMAIN inventory
    /\ inventory[op.key].quantity = 0
    /\ op.held >= inventory[op.key].price
    /\ display = DisplaySoldOut

\* C6 as claimed: for every coin c of the catalog, insertCoin(c.weight) returns
\* true, appends exactly one coin and raises the held value by exactly c.value.
C6_AcceptedCoinAddsItsValue ==
    [][ op'.name = "insertCoin" =>
            \A i \in 1..Len(validCoins) :
                validCoins[i].weight = op'.weight =>
                    /\ coinAccepted' = TRUE
                    /\ Len(insertedCoins') = Len(insertedCoins) + 1
                    /\ SumValues(insertedCoins') =
                          SumValues(insertedCoins) + validCoins[i].value ]_vars

\* C7: insertCoin(w) for a weight w that no catalog coin has returns false and
\* changes no field of the machine.
C7_UnknownWeightRejected ==
    [][ (op'.name = "insertCoin"
            /\ \A i \in 1..Len(validCoins) : validCoins[i].weight # op'.weight) =>
            /\ coinAccepted' = FALSE
            /\ UNCHANGED <<insertedCoins, coinInv, inventory, display, lastDispensedItem>> ]_vars

\* An unknown weight was offered while coins were held and stocked.
C7_Witness ==
    /\ op.name = "insertCoin"
    /\ op.weight = UnknownWeight
    /\ coinAccepted = FALSE
    /\ insertedCoins # <<>>
    /\ CoinInvValue > 0

\* C8: ejectCoins() and resetMachine() leave no held coins and leave the coin
\* stock, the inventory and the last dispensed item as they were: the held
\* coins do not go into the stock.
C8_EjectKeepsStock ==
    [][ op'.name \in {"ejectCoins", "resetMachine"} =>
            /\ insertedCoins' = <<>>
            /\ UNCHANGED <<coinInv, inventory, lastDispensedItem>> ]_vars

\* Coins were held when eject was pressed, and are gone.
C8_Witness ==
    /\ op.name = "ejectCoins"
    /\ op.held > 0
    /\ insertedCoins = <<>>
    /\ coinInv = op.stock

C10_Conservation ==
    CoinInvValue + SumValues(insertedCoins) = totalInserted - totalChange

\* C10 as amended: the value of the stock plus the value held is the value of
\* all coins ever accepted, minus the value of all coins returned as change,
\* minus the value of all held coins dropped by ejectCoins or resetMachine.
C10_ConservationWithEjected ==
    CoinInvValue + SumValues(insertedCoins) = totalInserted - totalChange - totalEjected

\* Coins are in all four places: stocked, held, paid out as change, ejected.
C10_Witness ==
    /\ CoinInvValue > 0
    /\ insertedCoins # <<>>
    /\ totalChange > 0
    /\ totalEjected > 0

\* C11: the stock of every denomination of the catalog is a whole number of
\* coins, never below 0; it goes down only in a purchase that returns a coin of
\* that value as change, and goes up only in a selectItem call made while a coin
\* of that value is held.
C11_StockNeverNegative ==
    /\ [](/\ DOMAIN coinInv = {validCoins[i].value : i \in 1..Len(validCoins)}
          /\ \A d \in DOMAIN coinInv : coinInv[d] \in Nat)
    /\ [][ \A d \in DOMAIN coinInv :
            /\ coinInv'[d] < coinInv[d] =>
                  IsSelect /\ CanBuy(op'.key) /\ CountValue(change', d) > 0
            /\ coinInv'[d] > coinInv[d] =>
                  IsSelect /\ CountValue(insertedCoins, d) > 0 ]_vars

\* A purchase whose change took the last coin of a denomination while more was owed.
C11_Witness ==
    /\ op.name = "selectItem"
    /\ display = DisplayThank
    /\ amounts # <<>>
    /\ amounts[Len(amounts)] > 0
    /\ \E d \in DOMAIN coinInv :
          /\ op.stock[d] > 0
          /\ CountValue(change, d) = op.stock[d]
          /\ d <= amounts[Len(amounts)]

\* C12: right after ejectCoins() or resetMachine() the display is INSERT COINS
\* if every denomination of the stock counts 5 coins or more, and EXACT CHANGE
\* ONLY otherwise.
C12_ResetShowsChangeMode ==
    [][ op'.name \in {"ejectCoins", "resetMachine"} =>
            display' = IF \A d \in DOMAIN coinInv' : coinInv'[d] >= 5
                       THEN DisplayInsert ELSE DisplayExact ]_vars

\* Eject was pressed with 5 coins or more of every denomination in stock.
C12_Witness ==
    /\ op.name = "ejectCoins"
    /\ \A d \in DOMAIN coinInv : coinInv[d] >= 5
    /\ display = DisplayInsert

\* C13 as claimed: the display of the machine as constructed is what the
\* exact-change derivation gives for the initial stock: INSERT COINS if every
\* denomination counts 5 coins or more, EXACT CHANGE ONLY otherwise.
C13_InitialDisplayDerived ==
    op.name = "constructor" =>
        display = IF \A d \in DOMAIN coinInv : coinInv[d] >= 5
                  THEN DisplayInsert ELSE DisplayExact

C15_DisplayIsKnownText ==
    display \in {DisplayInsert, DisplayExact, DisplaySoldOut, DisplayThank}
                    \cup {formatPriceText(inventory[k].price) : k \in DOMAIN inventory}

\* The chips at 1 were asked for with nothing held: the display is their price.
C15_Witness ==
    /\ op.name = "selectItem"
    /\ op.key = "A1"
    /\ op.held = 0
    /\ display = <<"PRICE: $", "0", ".", "0", "1">>
    /\ display = formatPriceText(inventory["A1"].price)

\* C16: the display changes only in selectItem, ejectCoins and resetMachine
\* calls; an insertCoin call, accepted or rejected, leaves the display, the coin
\* stock, the inventory and the last dispensed item as they were.
C16_InsertCoinKeepsDisplay ==
    [][ /\ display' # display =>
              op'.name \in {"selectItem", "ejectCoins", "resetMachine"}
        /\ op'.name = "insertCoin" =>
              UNCHANGED <<display, coinInv, inventory, lastDispensedItem>> ]_vars

\* A coin was accepted while the display still thanked for the last purchase.
C16_Witness ==
    /\ op.name = "insertCoin"
    /\ coinAccepted = TRUE
    /\ insertedCoins # <<>>
    /\ display = DisplayThank

\* C17: the last dispensed item is null in the machine as constructed, every
\* successful selectItem makes it the item bought, and every other call (a
\* rejected selectItem, insertCoin, ejectCoins, resetMachine) leaves it as it
\* was; so it is null until the first purchase and the item of the latest
\* purchase from then on.
C17_LastDispensedIsLatestPurchase ==
    /\ [](op.name = "constructor" => lastDispensedItem = Null)
    /\ [][ IF IsSelect /\ CanBuy(op'.key)
           THEN lastDispensedItem' = op'.key
           ELSE lastDispensedItem' = lastDispensedItem ]_vars

\* After the chips were bought the cola was asked for and refused: the chips
\* are still the last dispensed item.
C17_Witness ==
    /\ op.name = "selectItem"
    /\ op.key = "A2"
    /\ display # DisplayThank
    /\ lastDispensedItem = "A1"

\* C18 as claimed: whenever every denomination of the stock counts 5 coins or
\* more when a selectItem call succeeds, the change returned is worth exactly
\* heldValue - price.
C18_AbleToMakeChangeGivesExactChange ==
    [][ (IsSelect /\ CanBuy(op'.key) /\ \A d \in DOMAIN coinInv : coinInv[d] >= 5) =>
            SumValues(change') = Owed(op'.key) ]_vars

\* The reference greedy change maker: over the denominations S from the largest
\* down, with r still owed, min(inv[d], r \div d) coins of value d.
RECURSIVE RefGreedy(_, _, _)
RefGreedy(S, inv, r) ==
    IF S = {} THEN <<>>
    ELSE LET d == CHOOSE x \in S : \A y \in S : y <= x
             q == r \div d
             n == IF inv[d] < q THEN inv[d] ELSE q
         IN  [i \in 1..n |-> d] \o RefGreedy(S \ {d}, inv, r - n * d)

\* C19: the change of a purchase is the reference greedy change for heldValue -
\* price over the stock at the call; so its coins come in non-increasing value
\* and, when calcChange returns, every denomination still in stock is worth
\* more than what is still owed.
C19_CalcChangeIsGreedy ==
    [][ (IsSelect /\ CanBuy(op'.key)) =>
            LET ref  == RefGreedy(DOMAIN coinInv, coinInv, Owed(op'.key))
                rest == Owed(op'.key) - SumValues(change')
            IN  /\ [i \in 1..Len(change') |-> change'[i].value] = ref
                /\ \A i \in 1..(Len(change') - 1) : change'[i].value >= change'[i + 1].value
                /\ amounts'[Len(amounts')] = rest
                /\ \A d \in DOMAIN coinInv :
                      coinInv[d] - CountValue(change', d) > 0 => d > rest ]_vars

\* A purchase whose change steps down from one denomination to a smaller one.
C19_Witness ==
    /\ op.name = "selectItem"
    /\ display = DisplayThank
    /\ \E i \in 1..(Len(change) - 1) : change[i].value > change[i + 1].value

\* C20: a purchase works out its change on the stock as it was before the call
\* and takes the held coins into the stock only afterwards: of every value, the
\* change holds no more coins than the stock held before the call. On the
\* test's machine (stock {5:1, 10:2, 25:0}, price 65, 95 held) the change is
\* worth 25, not 30.
C20_ChangeComesFromOldStock ==
    /\ [](/\ SumValues(TestPurchase.change) = 25
          /\ [i \in 1..Len(TestPurchase.change) |-> TestPurchase.change[i].value] = <<10, 10, 5>>)
    /\ [][ IsSelect =>
            \A d \in DOMAIN coinInv : CountValue(change', d) <= coinInv[d] ]_vars

\* A purchase left an amount owed that a coin held at the call would have paid:
\* that coin is in the stock now and was not given back.
C20_Witness ==
    /\ op.name = "selectItem"
    /\ display = DisplayThank
    /\ amounts # <<>>
    /\ amounts[Len(amounts)] > 0
    /\ \E d \in DOMAIN coinInv :
          /\ d <= amounts[Len(amounts)]
          /\ coinInv[d] > 0
          /\ op.stock[d] - CountValue(change, d) = 0


\* C21: whatever the initial quantities (all >= 0), in every reachable state each
\* item's quantity is >= 0 and is its initial quantity less the number of selectItem
\* calls that bought from its slot; no insertCoin, no ejectCoins and no rejected
\* selectItem changes a quantity; and a selectItem for an item whose quantity is 0
\* dispenses nothing: the inventory and lastDispensedItem stay, no change is
\* returned and the display does not thank.
C21_QuantityLedger ==
    /\ [](\A k \in DOMAIN inventory :
            /\ inventory[k].quantity >= 0
            /\ inventory[k].quantity = initialQuantity[k] - purchases[k])
    /\ [][ /\ ( \/ op'.name \in {"insertCoin", "ejectCoins"}
                \/ (IsSelect /\ ~CanBuy(op'.key)) )
             => \A k \in DOMAIN inventory : inventory'[k].quantity = inventory[k].quantity
           /\ (IsSelect /\ op'.key \in DOMAIN inventory /\ inventory[op'.key].quantity = 0)
             => /\ inventory' = inventory
                /\ lastDispensedItem' = lastDispensedItem
                /\ change' = <<>>
                /\ display' # DisplayThank ]_vars

\* Both slots have been bought empty, and a selectItem for the emptied "A1", with
\* coins held that pay its price, was refused.
C21_Witness ==
    /\ \A k \in DOMAIN inventory :
          initialQuantity[k] > 0 /\ purchases[k] = initialQuantity[k] /\ inventory[k].quantity = 0
    /\ op.name = "selectItem"
    /\ op.key = "A1"
    /\ op.held >= inventory["A1"].price
    /\ display = DisplaySoldOut
    /\ lastDispensedItem # Null


\* C22: a machine of the later revision (held coins go to the stock at the end of
\* every selectItem) and a machine of the earlier revision (src/unnamed/part_000:
\* only after a purchase), built from the same arguments and given the same calls,
\* have the same held coins, coinInv, inventory, display and lastDispensedItem,
\* and their calls have returned the same results, as long as no selectItem has
\* been rejected while coins were held.
C22_RevisionsAgree ==
    ~rejectedHolding =>
        /\ earlier = Machine
        /\ earlierChange = change
        /\ earlierCoinAccepted = coinAccepted

\* No selectItem has been rejected with coins held, coins have been ejected, and
\* the last call bought an item with held coins and returned change: both
\* revisions took the held coins into their stock and agree.
C22_Witness ==
    /\ ~rejectedHolding
    /\ op.name = "selectItem"
    /\ op.held > 0
    /\ display = DisplayThank
    /\ change # <<>>
    /\ earlierChange = change
    /\ totalEjected > 0
    /\ insertedCoins = <<>>
    /\ earlier.insertedCoins = <<>>
    /\ earlier.coinInv = coinInv
    /\ \E v \in DOMAIN coinInv : coinInv[v] > 0

====
